---------------------------- MODULE Spec2Model ----------------------------
(***************************************************************************)
(* Fine Offset Electronics WS90 weather station decoder (rtl_433),         *)
(* src/devices/fineoffset_ws90.c.  The file holds two versions of          *)
(* fineoffset_ws90_decode: the earlier layout (lines 59-149, "variant A")  *)
(* and the revised layout (lines 241-326, "variant B").                    *)
(*                                                                         *)
(* A bit buffer row is a sequence of bits (bb) with its length             *)
(* (bits_per_row); a payload is a function 0..31 -> 0..255 (uint8_t        *)
(* buf[32]).  C floats are kept exact as rationals [num, den]: the code    *)
(* only multiplies small integers by 0.1f / 0.01f / 10 and prints them     *)
(* with one decimal.                                                       *)
(***************************************************************************)
EXTENDS Integers, Sequences, FiniteSets, TLC

VARIABLES
    variant,    \* which version of the decoder is built: "A" or "B"
    bitbuffer,  \* the candidate row handed to decode_fn: [bits_per_row, bb]
    pc,         \* "start", or the return statement the last call left by
    ret,        \* the last call's return value
    output,     \* the records passed to decoder_output_data by the last call
    flipped,    \* the position of the bit the channel flipped in the row, -1 if none
    seen        \* the <<return statement, return value>> pairs of the calls so far

vars == <<variant, bitbuffer, pc, ret, output, flipped, seen>>

-----------------------------------------------------------------------------
(* C integer operators on non-negative ints.                               *)

RECURSIVE BitAnd(_, _)
BitAnd(a, b) ==
    IF a = 0 \/ b = 0 THEN 0
    ELSE (IF a % 2 = 1 /\ b % 2 = 1 THEN 1 ELSE 0) + 2 * BitAnd(a \div 2, b \div 2)

RECURSIVE BitOr(_, _)
BitOr(a, b) ==
    IF a = 0 THEN b
    ELSE IF b = 0 THEN a
    ELSE (IF a % 2 = 1 \/ b % 2 = 1 THEN 1 ELSE 0) + 2 * BitOr(a \div 2, b \div 2)

RECURSIVE BitXor(_, _)
BitXor(a, b) ==
    IF a = 0 THEN b
    ELSE IF b = 0 THEN a
    ELSE (IF (a % 2) # (b % 2) THEN 1 ELSE 0) + 2 * BitXor(a \div 2, b \div 2)

RECURSIVE Shl(_, _)
Shl(a, n) == IF n = 0 THEN a ELSE Shl(2 * a, n - 1)

\* a value stored into a uint8_t
U8(a) == a % 256

\* C integer division of ints (truncation toward zero)
CDiv(a, b) == IF a >= 0 THEN a \div b ELSE -((-a) \div b)

-----------------------------------------------------------------------------
(* Utilities of the decoder framework (util.c, bitbuffer.c, decoder.h).    *)

\* one byte step of crc8(): remainder ^= byte, then 8 shifts, MSB first
RECURSIVE crc8_shift(_, _, _)
crc8_shift(remainder, polynomial, bit) ==
    IF bit = 0 THEN remainder
    ELSE crc8_shift(IF remainder >= 128
                      THEN BitXor(U8(2 * remainder), polynomial)
                      ELSE U8(2 * remainder),
                    polynomial, bit - 1)

\* the 8 shifts for every value of the remainder, polynomial 0x31 (the one
\* polynomial the decoder passes), computed once
crc8_poly31 == [remainder \in 0 .. 255 |-> crc8_shift(remainder, \h31, 8)]

crc8_byte(remainder, polynomial) ==
    IF polynomial = \h31 THEN crc8_poly31[remainder]
    ELSE crc8_shift(remainder, polynomial, 8)

\* crc8(message, nBytes, polynomial, init) over message[0 .. nBytes-1]; the
\* remainder is a uint8_t
RECURSIVE crc8_from(_, _, _, _, _)
crc8_from(message, byte, nBytes, polynomial, remainder) ==
    IF byte = nBytes \/ remainder \notin 0 .. 255 THEN remainder
    ELSE crc8_from(message, byte + 1, nBytes, polynomial,
                   crc8_byte(BitXor(remainder, message[byte]), polynomial))

crc8(message, nBytes, polynomial, init) ==
    crc8_from(message, 0, nBytes, polynomial, init)

\* add_bytes(message, num_bytes): the int sum of message[0 .. num_bytes-1]
RECURSIVE add_bytes(_, _)
add_bytes(message, num_bytes) ==
    IF num_bytes = 0 THEN 0
    ELSE message[num_bytes - 1] + add_bytes(message, num_bytes - 1)

\* the bits of a byte sequence, MSB first
RECURSIVE BitsOf(_)
BitsOf(bytes) ==
    IF bytes = <<>> THEN <<>>
    ELSE LET b == Head(bytes)
         IN  << (b \div 128) % 2, (b \div 64) % 2, (b \div 32) % 2, (b \div 16) % 2,
                (b \div 8) % 2, (b \div 4) % 2, (b \div 2) % 2, b % 2 >>
             \o BitsOf(Tail(bytes))

\* bit(bytes, pos): bit pos of a byte array, MSB first
bit(bytes, pos) == (bytes[(pos \div 8) + 1] \div (2 ^ (7 - (pos % 8)))) % 2

\* bitbuffer_search(bitbuffer, row 0, start, pattern, pattern_bits_len): the
\* position of the first match at or after start, bits_per_row when none
bitbuffer_search(bb, start, pattern, pattern_bits_len) ==
    LET len  == bb.bits_per_row
        hits == { ipos \in start .. (len - pattern_bits_len) :
                    \A ppos \in 0 .. pattern_bits_len - 1 :
                        bb.bb[ipos + ppos + 1] = bit(pattern, ppos) }
    IN  IF hits = {} THEN len
        ELSE CHOOSE ipos \in hits : \A other \in hits : ipos <= other

\* bitbuffer_extract_bytes(bitbuffer, row 0, pos, out, len): len bits from bit
\* pos packed MSB first; bits past the row's end read as 0
BitAt(bb, pos) == IF pos < bb.bits_per_row THEN bb.bb[pos + 1] ELSE 0

bitbuffer_extract_bytes(bb, pos, len) ==
    [ k \in 0 .. (len \div 8) - 1 |->
        LET p == pos + 8 * k
        IN  128 * BitAt(bb, p)     + 64 * BitAt(bb, p + 1) + 32 * BitAt(bb, p + 2)
          + 16 * BitAt(bb, p + 3)  + 8 * BitAt(bb, p + 4)  + 4 * BitAt(bb, p + 5)
          + 2 * BitAt(bb, p + 6)   + BitAt(bb, p + 7) ]

\* decoder return codes (decoder.h)
DECODE_ABORT_LENGTH == -1
DECODE_ABORT_EARLY == -2
DECODE_FAIL_MIC == -3

\* sprintf "%02x" and "%06x"
HexDigits == <<"0", "1", "2", "3", "4", "5", "6", "7",
               "8", "9", "a", "b", "c", "d", "e", "f">>

Hex2(b) == HexDigits[((b \div 16) % 16) + 1] \o HexDigits[(b % 16) + 1]

Hex6(n) == Hex2(n \div 65536) \o Hex2((n \div 256) % 256) \o Hex2(n % 256)

\* data_make(): the key/value list, a DATA_COND entry kept only when its
\* condition holds
Entry(key, value) == << [key |-> key, value |-> value] >>

EntryIf(cond, key, value) == IF cond THEN Entry(key, value) ELSE <<>>

\* a C float or double built from an int: num / den
Ratio(num, den) == [num |-> num, den |-> den]

-----------------------------------------------------------------------------
(* Fields decoded the same way by both versions (lines 94-110, 275-287).   *)

id(buf) == BitOr(BitOr(Shl(buf[1], 16), Shl(buf[2], 8)), buf[3])

id_str(buf) == Hex6(id(buf))

light_raw(buf) == BitOr(Shl(buf[4], 8), buf[5])

light_lux(buf) == light_raw(buf) * 10

battery_mv(buf) == buf[6] * 20

flags(buf) == buf[7]

\* temp_raw without the two high bits of the flags byte
temp_raw_low_byte(buf) == buf[8]

temp_raw(buf) == BitOr(Shl(BitAnd(buf[7], \h03), 8), buf[8])

temp_c(buf) == Ratio(temp_raw(buf) - 400, 10)

humidity(buf) == buf[9]

\* wind_avg with the shift of wind_dir
wind_avg_shift3(buf) == BitOr(Shl(BitAnd(buf[7], \h10), 3), buf[10])

wind_avg(buf) == BitOr(Shl(BitAnd(buf[7], \h10), 4), buf[10])

wind_dir(buf) == BitOr(Shl(BitAnd(buf[7], \h20), 3), buf[11])

wind_max(buf) == BitOr(Shl(BitAnd(buf[7], \h40), 2), buf[12])

uv_index(buf) == buf[13]

\* mic_error with && for ||: a frame failing one check only is accepted
mic_error_both(buf) ==
    LET crc == U8(crc8(buf, 31, \h31, \h00))
        chk == U8(add_bytes(buf, 31))
    IN  crc # 0 /\ chk # buf[31]

\* mic_error without the checksum comparison
mic_error_crc_only(buf) == U8(crc8(buf, 31, \h31, \h00)) # 0

\* crc != 0 || chk != buf[31], with crc and chk stored in uint8_t
mic_error(buf) ==
    LET crc == U8(crc8(buf, 31, \h31, \h00))
        chk == U8(add_bytes(buf, 31))
    IN  crc # 0 \/ chk # buf[31]

-----------------------------------------------------------------------------
(* Variant A: lines 59-149.                                                *)

battery_lvl_A(buf) ==
    IF battery_mv(buf) < 1680 THEN 0 ELSE CDiv(battery_mv(buf) - 1680, 16)

rain_raw_A(buf) == BitOr(Shl(BitAnd(buf[19], \h0f), 8), buf[20])

g1(buf) == Hex2(buf[15]) \o " " \o Hex2(buf[16]) \o " " \o Hex2(buf[17]) \o " " \o Hex2(buf[18])

g2(buf) == Hex2(buf[21]) \o " " \o Hex2(buf[22]) \o " " \o Hex2(buf[23]) \o " " \o Hex2(buf[24])

g3(buf) ==
    Hex2(buf[25]) \o " " \o Hex2(buf[26]) \o " " \o Hex2(buf[27]) \o " "
    \o Hex2(buf[28]) \o " " \o Hex2(buf[29])

data_A(buf) ==
       Entry("model", "Fineoffset-WS90")
    \o Entry("id", id_str(buf))
    \o Entry("battery_ok", Ratio(battery_lvl_A(buf), 100))
    \o Entry("battery_mV", battery_mv(buf))
    \o EntryIf(temp_raw(buf) # \h3ff, "temperature_C", temp_c(buf))
    \o EntryIf(humidity(buf) # \hff, "humidity", humidity(buf))
    \o EntryIf(wind_dir(buf) # \h1ff, "wind_dir_deg", wind_dir(buf))
    \o EntryIf(wind_avg(buf) # \h1ff, "wind_avg_m_s", Ratio(wind_avg(buf), 10))
    \o EntryIf(wind_max(buf) # \h1ff, "wind_max_m_s", Ratio(wind_max(buf), 10))
    \o EntryIf(uv_index(buf) # \hff, "uv", Ratio(uv_index(buf), 10))
    \o EntryIf(light_raw(buf) # \hffff, "lux", Ratio(light_lux(buf), 1))
    \o Entry("rain_mm", Ratio(rain_raw_A(buf), 10))
    \o Entry("flags", flags(buf))
    \o Entry("g1", g1(buf))
    \o Entry("g2", g2(buf))
    \o Entry("g3", g3(buf))
    \o Entry("mic", "CRC")

preamble_A == << \haa, \h2d, \hd4 >>

\* fineoffset_ws90_decode with the family mismatch returning DECODE_FAIL_MIC
fineoffset_ws90_decode_A_early_as_mic(bb) ==
    IF bb.bits_per_row < 280 \/ bb.bits_per_row > 350
    THEN [at |-> "abort_length", ret |-> DECODE_ABORT_LENGTH, out |-> <<>>]
    ELSE LET bit_offset == bitbuffer_search(bb, 0, preamble_A, 24) + 24
         IN  IF bit_offset + 32 * 8 > bb.bits_per_row
             THEN [at |-> "short_package", ret |-> DECODE_ABORT_LENGTH, out |-> <<>>]
             ELSE LET buf == bitbuffer_extract_bytes(bb, bit_offset, 32 * 8)
                  IN  IF buf[0] # \h90
                      THEN [at |-> "abort_early", ret |-> DECODE_FAIL_MIC, out |-> <<>>]
                      ELSE IF mic_error(buf)
                      THEN [at |-> "fail_mic", ret |-> DECODE_FAIL_MIC, out |-> <<>>]
                      ELSE [at |-> "output", ret |-> 1, out |-> << data_A(buf) >>]

fineoffset_ws90_decode_A(bb) ==
    IF bb.bits_per_row < 280 \/ bb.bits_per_row > 350
    THEN [at |-> "abort_length", ret |-> DECODE_ABORT_LENGTH, out |-> <<>>]
    ELSE LET bit_offset == bitbuffer_search(bb, 0, preamble_A, 24) + 24
         IN  IF bit_offset + 32 * 8 > bb.bits_per_row
             THEN [at |-> "short_package", ret |-> DECODE_ABORT_LENGTH, out |-> <<>>]
             ELSE LET buf == bitbuffer_extract_bytes(bb, bit_offset, 32 * 8)
                  IN  IF buf[0] # \h90
                      THEN [at |-> "abort_early", ret |-> DECODE_ABORT_EARLY, out |-> <<>>]
                      ELSE IF mic_error(buf)
                      THEN [at |-> "fail_mic", ret |-> DECODE_FAIL_MIC, out |-> <<>>]
                      ELSE [at |-> "output", ret |-> 1, out |-> << data_A(buf) >>]

-----------------------------------------------------------------------------
(* Variant B: lines 241-326.                                               *)

battery_lvl_B(buf) ==
    LET battery_lvl == IF battery_mv(buf) < 1680 THEN 0
                       ELSE CDiv(battery_mv(buf) - 1680, 16)
    IN  IF battery_lvl > 100 THEN 100 ELSE battery_lvl

rain_raw_B(buf) == BitOr(Shl(buf[19], 8), buf[20])

supercap_V(buf) == BitAnd(buf[21], \h3f)

firmware(buf) == buf[29]

extra(buf) ==
    Hex2(buf[14]) \o Hex2(buf[15]) \o Hex2(buf[16]) \o Hex2(buf[17]) \o Hex2(buf[18])
    \o "------"
    \o Hex2(buf[22]) \o Hex2(buf[23]) \o Hex2(buf[24]) \o Hex2(buf[25])
    \o Hex2(buf[26]) \o Hex2(buf[27]) \o Hex2(buf[28])

data_B(buf) ==
       Entry("model", "Fineoffset-WS90")
    \o Entry("id", id_str(buf))
    \o Entry("battery_ok", Ratio(battery_lvl_B(buf), 100))
    \o Entry("battery_mV", battery_mv(buf))
    \o EntryIf(temp_raw(buf) # \h3ff, "temperature_C", temp_c(buf))
    \o EntryIf(humidity(buf) # \hff, "humidity", humidity(buf))
    \o EntryIf(wind_dir(buf) # \h1ff, "wind_dir_deg", wind_dir(buf))
    \o EntryIf(wind_avg(buf) # \h1ff, "wind_avg_m_s", Ratio(wind_avg(buf), 10))
    \o EntryIf(wind_max(buf) # \h1ff, "wind_max_m_s", Ratio(wind_max(buf), 10))
    \o EntryIf(uv_index(buf) # \hff, "uv", Ratio(uv_index(buf), 10))
    \o EntryIf(light_raw(buf) # \hffff, "lux", Ratio(light_lux(buf), 1))
    \o Entry("flags", flags(buf))
    \o Entry("rain_mm", Ratio(rain_raw_B(buf), 10))
    \o EntryIf(supercap_V(buf) # \hff, "supercap_V", Ratio(supercap_V(buf), 10))
    \o Entry("firmware", firmware(buf))
    \o Entry("data", extra(buf))
    \o Entry("mic", "CRC")

preamble_B == << \haa, \haa, \h2d, \hd4 >>

\* fineoffset_ws90_decode with >= for > in the short package test
fineoffset_ws90_decode_B_short_ge(bb) ==
    IF bb.bits_per_row < 168 \/ bb.bits_per_row > 330
    THEN [at |-> "abort_length", ret |-> DECODE_ABORT_LENGTH, out |-> <<>>]
    ELSE LET bit_offset == bitbuffer_search(bb, 0, preamble_B, 32) + 32
         IN  IF bit_offset + 32 * 8 >= bb.bits_per_row
             THEN [at |-> "short_package", ret |-> DECODE_ABORT_LENGTH, out |-> <<>>]
             ELSE LET buf == bitbuffer_extract_bytes(bb, bit_offset, 32 * 8)
                  IN  IF buf[0] # \h90
                      THEN [at |-> "abort_early", ret |-> DECODE_ABORT_EARLY, out |-> <<>>]
                      ELSE IF mic_error(buf)
                      THEN [at |-> "fail_mic", ret |-> DECODE_FAIL_MIC, out |-> <<>>]
                      ELSE [at |-> "output", ret |-> 1, out |-> << data_B(buf) >>]

fineoffset_ws90_decode_B(bb) ==
    IF bb.bits_per_row < 168 \/ bb.bits_per_row > 330
    THEN [at |-> "abort_length", ret |-> DECODE_ABORT_LENGTH, out |-> <<>>]
    ELSE LET bit_offset == bitbuffer_search(bb, 0, preamble_B, 32) + 32
         IN  IF bit_offset + 32 * 8 > bb.bits_per_row
             THEN [at |-> "short_package", ret |-> DECODE_ABORT_LENGTH, out |-> <<>>]
             ELSE LET buf == bitbuffer_extract_bytes(bb, bit_offset, 32 * 8)
                  IN  IF buf[0] # \h90
                      THEN [at |-> "abort_early", ret |-> DECODE_ABORT_EARLY, out |-> <<>>]
                      ELSE IF mic_error(buf)
                      THEN [at |-> "fail_mic", ret |-> DECODE_FAIL_MIC, out |-> <<>>]
                      ELSE [at |-> "output", ret |-> 1, out |-> << data_B(buf) >>]

-----------------------------------------------------------------------------
(* The rows the radio front end hands to the decoder.  A transmission is   *)
(* the preamble (bytes aa), the sync word 2d d4 and the 32 payload bytes;  *)
(* the front end may capture noise bits before it and cuts or pads the row *)
(* to the row length.                                                      *)

\* noise bits before the preamble, in the framing rows: 0 .. MaxPrefix
MaxPrefix == 2

Payload(bytes) == [k \in 0 .. 31 |-> IF k < Len(bytes) THEN bytes[k + 1] ELSE 0]

PayloadSeq(p) == [i \in 1 .. 32 |-> p[i - 1]]

\* the example packet of the variant B documentation (line 218)
ExampleB ==
    Payload(<< \h90, \h00, \h34, \h2b, \h00, \h77, \ha4, \h82, \h62, \h39, \h00,
               \h3e, \h00, \h00, \h3f, \hff, \h20, \h00, \hba, \h00, \h00, \h26,
               \h02, \h00, \hff, \h9f, \hf8, \h00, \h00, \h82, \h92, \h4f >>)

\* the example packet of the variant A documentation (line 26): 18 bytes
ExampleA ==
    << \h80, \h0a, \h00, \h3b, \h00, \h00, \h88, \h8a, \h59, \h38, \h18, \h6d,
       \h1c, \h00, \hff, \hff, \hd8, \hdf >>

\* what the sensor does before sending: byte 30 is the CRC-8 of bytes 0-29,
\* byte 31 the sum of bytes 0-30
Seal(p) ==
    LET q == [p EXCEPT ![30] = U8(crc8(p, 30, \h31, \h00))]
    IN  [q EXCEPT ![31] = U8(add_bytes(q, 31))]

Noise(k) == [i \in 1 .. k |-> 1]

Run(r) == [i \in 1 .. r |-> \haa]

Zeros(n) == [i \in 1 .. n |-> 0]

\* the first n bits of bits followed by zeros
Pad(bits, n) == SubSeq(bits \o Zeros(n), 1, n)

\* a row of n bits: k noise bits, r preamble bytes and the sync word (or no
\* preamble and no sync word when r = 0), then the payload bytes
Row(k, r, bytes, n) ==
    [bits_per_row |-> n,
     bb |-> Pad(Noise(k)
                \o (IF r = 0 THEN <<>> ELSE BitsOf(Run(r) \o << \h2d, \hd4 >>))
                \o BitsOf(bytes), n)]

\* the nominal capture: one noise bit, the 48 bit preamble and the sync word,
\* the payload, zero bits up to 328 bits
NominalRow(p) == Row(1, 6, PayloadSeq(p), 328)

\* the bit position of payload bit 0 in a nominal row
NominalOffset == 1 + 8 * 8

BatteryFrames == { Seal([ExampleB EXCEPT ![6] = v]) : v \in 0 .. 255 }

FlagSet == { \h00, \h01, \h02, \h03, \h10, \h13, \h20, \h40, \h73, \h88, \h8a, \hfb }

\* flags byte f, every measurement byte g, and measurement k (1 temperature,
\* 2 humidity, 3 wind average, 4 wind direction, 5 wind gust, 6 UV, 7 light,
\* 0 none) with low byte v (light: high byte ff, low byte v)
WithFields(f, g, k, v) ==
    [b \in 0 .. 31 |->
        IF b = 7 THEN f
        ELSE IF k \in 1 .. 6 /\ b = 7 + k THEN v
        ELSE IF k = 7 /\ b = 4 THEN \hff
        ELSE IF k = 7 /\ b = 5 THEN v
        ELSE IF b \in {4, 5} \cup (8 .. 13) THEN g
        ELSE ExampleB[b]]

FieldFrames ==
    { Seal(WithFields(f, g, k, v)) :
        f \in FlagSet, g \in { \h37, \hff }, k \in 0 .. 7, v \in { \h00, \hfe, \hff } }

UnknownFrames == { Seal([ExampleB EXCEPT ![k] = v]) : k \in 14 .. 29, v \in { \h00, \ha5 } }

\* byte 30 any value x; byte 31 the sum of bytes 0-30, that sum plus one, or
\* the CRC-8 of bytes 0-30
MicFrames ==
    UNION { LET q == [ExampleB EXCEPT ![30] = x]
                sum == U8(add_bytes(q, 31))
            IN  { [q EXCEPT ![31] = y] : y \in { sum, U8(sum + 1), U8(crc8(q, 31, \h31, \h00)) } }
          : x \in 0 .. 255 }

FamilyFrames == { Seal([ExampleB EXCEPT ![0] = v]) : v \in { \h80, \h91, \h10 } }

\* the variant A example, captured at its own length and zero-padded to the
\* nominal length
ExampleARows == { Row(1, 6, ExampleA, 1 + 8 * 8 + 8 * 18), Row(1, 6, ExampleA, 328) }

RowLengths == { 167, 168, 279, 280, 281, 287, 288, 289, 320, 329, 330, 331, 350, 351 }

FramingRows ==
    { Row(k, r, PayloadSeq(p), n) :
        k \in 0 .. MaxPrefix, r \in { 0, 1, 2, 6 }, n \in RowLengths,
        p \in { ExampleB, Seal([ExampleB EXCEPT ![0] = \h80]), [ExampleB EXCEPT ![12] = 1] } }

Rows ==
    { NominalRow(p) : p \in BatteryFrames \cup FieldFrames \cup UnknownFrames
                            \cup MicFrames \cup FamilyFrames }
    \cup ExampleARows \cup FramingRows

\* the rows of the two-call runs
SeqRows ==
    { Row(k, r, PayloadSeq(p), n) :
        k \in 0 .. MaxPrefix, r \in { 0, 6 }, n \in { 167, 280, 328, 351 },
        p \in { ExampleB, Seal([ExampleB EXCEPT ![0] = \h80]), [ExampleB EXCEPT ![12] = 1] } }

\* the valid rows a single bit of which the channel flips
FlipRows ==
    { NominalRow(Seal(p)) :
        p \in { [ExampleB EXCEPT ![6] = v] : v \in { \h00, \h54, \ha4, \hff } }
              \cup { WithFields(f, \hff, 0, 0) : f \in { \h00, \h73 } } }

-----------------------------------------------------------------------------
(* The decoder, called once per candidate row (r_device.decode_fn).        *)

Decode(r) ==
    /\ pc' = r.at
    /\ ret' = r.ret
    /\ output' = r.out
    /\ seen' = seen \cup { <<r.at, r.ret>> }
    /\ UNCHANGED <<variant, bitbuffer, flipped>>

DecodeA ==
    /\ pc = "start"
    /\ variant = "A"
    /\ Decode(fineoffset_ws90_decode_A(bitbuffer))

DecodeB ==
    /\ pc = "start"
    /\ variant = "B"
    /\ Decode(fineoffset_ws90_decode_B(bitbuffer))

\* the framework hands over the next candidate row; the records of the last
\* call have gone to the output handlers
Receive ==
    /\ pc # "start"
    /\ \E row \in SeqRows : bitbuffer' = row
    /\ pc' = "start"
    /\ output' = <<>>
    /\ UNCHANGED <<variant, ret, flipped, seen>>

\* the channel flips one payload bit of the row before it is decoded
FlipBit ==
    /\ pc = "start"
    /\ flipped = -1
    /\ \E pos \in NominalOffset .. NominalOffset + 255 :
          /\ bitbuffer' = [bitbuffer EXCEPT !.bb[pos + 1] = 1 - @]
          /\ flipped' = pos
    /\ UNCHANGED <<variant, pc, ret, output, seen>>

Start(rows) ==
    /\ variant \in { "A", "B" }
    /\ bitbuffer \in rows
    /\ pc = "start"
    /\ ret = 0
    /\ output = <<>>
    /\ flipped = -1
    /\ seen = {}

Init == Start(Rows)

Next == DecodeA \/ DecodeB

Spec == Init /\ [][Next]_vars

InitSeq == Start(SeqRows)

NextSeq == DecodeA \/ DecodeB \/ Receive

SpecSeq == InitSeq /\ [][NextSeq]_vars

InitFlip == Start(FlipRows)

NextFlip == DecodeA \/ DecodeB \/ FlipBit

SpecFlip == InitFlip /\ [][NextFlip]_vars

-----------------------------------------------------------------------------
(* What the properties below read off a state.                             *)

PreambleLen == IF variant = "A" THEN 24 ELSE 32

Preamble == IF variant = "A" THEN preamble_A ELSE preamble_B

InWindow ==
    IF variant = "A" THEN bitbuffer.bits_per_row \in 280 .. 350
    ELSE bitbuffer.bits_per_row \in 168 .. 330

MatchAt(pos) ==
    /\ pos + PreambleLen <= bitbuffer.bits_per_row
    /\ \A j \in 0 .. PreambleLen - 1 : bitbuffer.bb[pos + j + 1] = bit(Preamble, j)

\* the positions right after the first occurrence of the preamble and sync
\* word: one position, or none when the row does not hold them
PayloadStarts ==
    { pos + PreambleLen : pos \in { q \in 0 .. bitbuffer.bits_per_row :
                                      MatchAt(q) /\ \A e \in 0 .. q - 1 : ~MatchAt(e) } }

\* the 32 bytes after the preamble, for a row that holds 256 bits after it
Frame == bitbuffer_extract_bytes(bitbuffer, CHOOSE pos \in PayloadStarts : TRUE, 256)

HasFrame == \E pos \in PayloadStarts : pos + 256 <= bitbuffer.bits_per_row

SumOfBytes(buf, first, last) == add_bytes([k \in 0 .. last - first |-> buf[first + k]], last - first + 1)

\* the additive checksum of bytes 0-30 is byte 31
ChecksumHolds(buf) == SumOfBytes(buf, 0, 30) % 256 = buf[31]

\* byte 30 is the CRC-8 of bytes 0-29
CrcByteHolds(buf) == crc8(buf, 30, \h31, \h00) = buf[30]

FullyValid == InWindow /\ HasFrame /\ Frame[0] = \h90 /\ ChecksumHolds(Frame) /\ CrcByteHolds(Frame)

Has(data, key) == \E i \in 1 .. Len(data) : data[i].key = key

Get(data, key) == data[CHOOSE i \in 1 .. Len(data) : data[i].key = key].value

Without(data, keys) == SelectSeq(data, LAMBDA e : e.key \notin keys)

Data(buf) == IF variant = "A" THEN data_A(buf) ELSE data_B(buf)

Aborts == { "abort_length", "short_package", "abort_early", "fail_mic" }

-----------------------------------------------------------------------------
\* C1: in both variants the call returns 1 and emits exactly one record if
\* and only if the row fully validates (length in the window, preamble found
\* with 256 bits after it, byte 0 = 0x90, checksum and CRC right); on every
\* abort path it emits nothing and returns a value <= 0.
C1_RecordIffValid ==
    pc # "start" =>
        /\ FullyValid <=> (ret = 1 /\ Len(output) = 1)
        /\ ret > 0 <=> pc = "output"
        /\ pc \in Aborts => (ret <= 0 /\ output = <<>>)
        /\ pc \in Aborts \cup { "output" }

C1_Witness == pc = "output" /\ ret = 1 /\ Len(output) = 1 /\ FullyValid

C3_Original ==
    \A a \in seen : \A b \in seen :
        (a[1] \in Aborts /\ b[1] \in Aborts /\ a[1] # b[1]) => a[2] # b[2]

\* C3 amended: length-abort and short-frame both return DECODE_ABORT_LENGTH;
\* family-mismatch returns DECODE_ABORT_EARLY and integrity-failure returns
\* DECODE_FAIL_MIC; apart from the pair length-abort / short-frame no two
\* abort reasons return the same value.
C3_ThreeCodes ==
    /\ \A a \in seen :
          /\ a[1] \in { "abort_length", "short_package" } => a[2] = DECODE_ABORT_LENGTH
          /\ a[1] = "abort_early" => a[2] = DECODE_ABORT_EARLY
          /\ a[1] = "fail_mic" => a[2] = DECODE_FAIL_MIC
    /\ \A a \in seen : \A b \in seen :
          ( /\ a[1] \in Aborts /\ b[1] \in Aborts /\ a[1] # b[1]
            /\ { a[1], b[1] } # { "abort_length", "short_package" } ) => a[2] # b[2]

C3_Witness == Aborts \subseteq { a[1] : a \in seen }

\* C4: in every emitted record of either variant the battery level is in
\* 0 .. 100 (battery_ok in [0.0, 1.0]), and 0 below 1680 mV.
C4_LevelInRange ==
    pc = "output" =>
        LET ok == Get(output[1], "battery_ok")
        IN  /\ ok.den = 100
            /\ ok.num \in 0 .. 100
            /\ Frame[6] * 20 < 1680 => ok.num = 0

\* C5: raw byte 0x54 (1680 mV) gives level 0, every raw byte of 3000 mV or
\* more (raw >= 150) gives level 100, and the level does not decrease when
\* the raw byte grows by one.
C5_LinearTo3000 ==
    pc = "output" =>
        LET raw == Frame[6]
            lvl == Get(output[1], "battery_ok").num
            up  == Get(Data([Frame EXCEPT ![6] = raw + 1]), "battery_ok").num
        IN  /\ raw = \h54 => lvl = 0
            /\ raw >= 150 => lvl = 100
            /\ raw < 255 => lvl <= up

\* the full raw values of the measurements, low byte plus the high bits of
\* the flags byte 7
RawTemp(buf) == (buf[7] % 4) * 256 + buf[8]

RawWindAvg(buf) == ((buf[7] \div 16) % 2) * 256 + buf[10]

RawWindDir(buf) == ((buf[7] \div 32) % 2) * 256 + buf[11]

RawWindMax(buf) == ((buf[7] \div 64) % 2) * 256 + buf[12]

RawLight(buf) == buf[4] * 256 + buf[5]

\* key is in the record exactly when raw is not the sentinel, and then holds value
PresentUnless(data, key, raw, sentinel, value) ==
    /\ Has(data, key) <=> raw # sentinel
    /\ Has(data, key) => Get(data, key) = value

\* C6: each sentinel-bearing measurement is left out of the record exactly
\* when its full raw value is the sentinel (temperature 0x3FF, humidity 0xFF,
\* wind direction / average / gust 0x1FF, UV 0xFF, light 0xFFFF), whatever
\* the other bytes are; otherwise it holds the scaled value (0x3FE gives
\* 62.2 C, wind 0x1FE gives 51.0 m/s); a low byte 0xFF with the flag bit
\* clear does not make an extended measurement absent.
C6_SentinelOnFullValue ==
    pc = "output" =>
        LET buf == Frame
            r   == output[1]
        IN  /\ PresentUnless(r, "temperature_C", RawTemp(buf), \h3ff, Ratio(RawTemp(buf) - 400, 10))
            /\ PresentUnless(r, "humidity", buf[9], \hff, buf[9])
            /\ PresentUnless(r, "wind_dir_deg", RawWindDir(buf), \h1ff, RawWindDir(buf))
            /\ PresentUnless(r, "wind_avg_m_s", RawWindAvg(buf), \h1ff, Ratio(RawWindAvg(buf), 10))
            /\ PresentUnless(r, "wind_max_m_s", RawWindMax(buf), \h1ff, Ratio(RawWindMax(buf), 10))
            /\ PresentUnless(r, "uv", buf[13], \hff, Ratio(buf[13], 10))
            /\ PresentUnless(r, "lux", RawLight(buf), \hffff, Ratio(RawLight(buf) * 10, 1))
            /\ RawTemp(buf) = \h3fe => Get(r, "temperature_C") = Ratio(622, 10)
            /\ RawWindAvg(buf) = \h1fe => Get(r, "wind_avg_m_s") = Ratio(510, 10)
            /\ RawWindMax(buf) = \h1fe => Get(r, "wind_max_m_s") = Ratio(510, 10)
            /\ (buf[8] = \hff /\ buf[7] % 4 # 3) => Has(r, "temperature_C")
            /\ (buf[10] = \hff /\ (buf[7] \div 16) % 2 = 0) => Has(r, "wind_avg_m_s")
            /\ (buf[11] = \hff /\ (buf[7] \div 32) % 2 = 0) => Has(r, "wind_dir_deg")
            /\ (buf[12] = \hff /\ (buf[7] \div 64) % 2 = 0) => Has(r, "wind_max_m_s")

\* temperature at sentinel-minus-one is present, the wind average at its
\* sentinel is absent, and the gust with low byte 0xFF and its flag bit clear
\* is present
C6_Witness ==
    /\ pc = "output"
    /\ RawTemp(Frame) = \h3fe /\ Get(output[1], "temperature_C") = Ratio(622, 10)
    /\ RawWindAvg(Frame) = \h1ff /\ ~Has(output[1], "wind_avg_m_s")
    /\ RawWindMax(Frame) = \hff /\ Has(output[1], "wind_max_m_s")

\* the frame with flag bit(s) mask of byte 7 set in addition
WithFlag(buf, mask) == [buf EXCEPT ![7] = @ + mask]

\* setting the flag bits mask changes the record only in entry key and in
\* the raw flags entry, which grows by mask
OnlyChanges(buf, mask, key) ==
    LET before == Data(buf)
        after  == Data(WithFlag(buf, mask))
    IN  /\ Without(after, { key, "flags" }) = Without(before, { key, "flags" })
        /\ Get(after, "flags") = Get(before, "flags") + mask

\* C7: with the low bytes fixed, setting only flag bit 0x10 raises the wind
\* average raw value by 256, only 0x20 the wind direction by 256, only 0x40
\* the gust by 256; the bits 0x03 add (buf[7] & 0x03) * 256 to the
\* temperature raw value; each flag bit changes its own measurement and the
\* raw flags value and nothing else in the record.
C7_FlagBitsExtend ==
    pc = "output" =>
        LET buf == Frame
        IN  /\ temp_raw(buf) = (buf[7] % 4) * 256 + buf[8]
            /\ (buf[7] \div 16) % 2 = 0 =>
                  /\ wind_avg(WithFlag(buf, \h10)) = wind_avg(buf) + 256
                  /\ wind_dir(WithFlag(buf, \h10)) = wind_dir(buf)
                  /\ wind_max(WithFlag(buf, \h10)) = wind_max(buf)
                  /\ temp_raw(WithFlag(buf, \h10)) = temp_raw(buf)
                  /\ OnlyChanges(buf, \h10, "wind_avg_m_s")
            /\ (buf[7] \div 32) % 2 = 0 =>
                  /\ wind_dir(WithFlag(buf, \h20)) = wind_dir(buf) + 256
                  /\ wind_avg(WithFlag(buf, \h20)) = wind_avg(buf)
                  /\ wind_max(WithFlag(buf, \h20)) = wind_max(buf)
                  /\ temp_raw(WithFlag(buf, \h20)) = temp_raw(buf)
                  /\ OnlyChanges(buf, \h20, "wind_dir_deg")
            /\ (buf[7] \div 64) % 2 = 0 =>
                  /\ wind_max(WithFlag(buf, \h40)) = wind_max(buf) + 256
                  /\ wind_avg(WithFlag(buf, \h40)) = wind_avg(buf)
                  /\ wind_dir(WithFlag(buf, \h40)) = wind_dir(buf)
                  /\ temp_raw(WithFlag(buf, \h40)) = temp_raw(buf)
                  /\ OnlyChanges(buf, \h40, "wind_max_m_s")
            /\ \A mask \in { \h01, \h02 } :
                  BitAnd(buf[7], mask) = 0 =>
                      /\ temp_raw(WithFlag(buf, mask)) = temp_raw(buf) + mask * 256
                      /\ wind_avg(WithFlag(buf, mask)) = wind_avg(buf)
                      /\ wind_dir(WithFlag(buf, mask)) = wind_dir(buf)
                      /\ wind_max(WithFlag(buf, mask)) = wind_max(buf)
                      /\ OnlyChanges(buf, mask, "temperature_C")

\* a record from a frame with the wind average flag clear, whose wind average
\* entry is 256 tenths lower than with the flag set
C7_Witness ==
    /\ pc = "output"
    /\ BitAnd(Frame[7], \h10) = 0
    /\ Has(output[1], "wind_avg_m_s")
    /\ Has(Data(WithFlag(Frame, \h10)), "wind_avg_m_s")
    /\ Get(Data(WithFlag(Frame, \h10)), "wind_avg_m_s").num
         = Get(output[1], "wind_avg_m_s").num + 256

\* C8: the variant A decoder turns the documented variant A example (bytes
\* 80 0a 00 3b 00 00 88 8a 59 38 18 6d 1c 00 ff ff d8 df after the preamble)
\* into a record with id 0a003b, 2720 mV, level 65, 20.1 C, humidity 56,
\* wind 2.4 m/s from 109 degrees, gust 2.8 m/s, UV 0.0.
C8_ExampleADecodes ==
    (pc # "start" /\ variant = "A" /\ bitbuffer \in ExampleARows) =>
        /\ Len(output) = 1
        /\ Get(output[1], "id") = "0a003b"
        /\ Get(output[1], "battery_mV") = 2720
        /\ Get(output[1], "battery_ok") = Ratio(65, 100)
        /\ Get(output[1], "temperature_C") = Ratio(201, 10)
        /\ Get(output[1], "humidity") = 56
        /\ Get(output[1], "wind_avg_m_s") = Ratio(24, 10)
        /\ Get(output[1], "wind_dir_deg") = 109
        /\ Get(output[1], "wind_max_m_s") = Ratio(28, 10)
        /\ Get(output[1], "uv") = Ratio(0, 10)

\* the row before the channel flipped a bit
Unflipped == [bitbuffer EXCEPT !.bb[flipped + 1] = 1 - @]

\* C9: a frame the decoder accepts is rejected once any single bit of it is
\* flipped: the family check or one of the two integrity checks fails and no
\* record is emitted.
C9_SingleBitFlipRejected ==
    ( /\ pc # "start"
      /\ flipped # -1
      /\ (IF variant = "A" THEN fineoffset_ws90_decode_A(Unflipped)
                           ELSE fineoffset_ws90_decode_B(Unflipped)).ret = 1 ) =>
        /\ pc \in { "abort_early", "fail_mic" }
        /\ ret <= 0
        /\ output = <<>>

\* a flip in byte 31 leaves the CRC over bytes 0-30 at zero and is caught by
\* the additive checksum alone
C9_Witness ==
    /\ pc = "fail_mic"
    /\ flipped >= NominalOffset + 8 * 31
    /\ crc8(Frame, 31, \h31, \h00) = 0
    /\ ~ChecksumHolds(Frame)

Appears(hex, str) == \E i \in 1 .. Len(str) - 1 : SubSeq(str, i, i + 1) = hex

\* the payload bytes 14-29 that no named measurement reads
Unassigned == IF variant = "A" THEN (14 .. 29) \ { 19, 20 } ELSE (14 .. 29) \ { 19, 20, 21, 29 }

Opaque(data) ==
    IF variant = "A" THEN { Get(data, "g1"), Get(data, "g2"), Get(data, "g3") }
    ELSE { Get(data, "data") }

\* C10: every byte in positions 14-29 that is not decoded into rain,
\* supercap voltage or firmware version appears as two hex digits in the
\* record's opaque output (g1/g2/g3, or data).
C10_UnknownBytesKept ==
    pc = "output" =>
        \A k \in Unassigned : \E str \in Opaque(output[1]) : Appears(Hex2(Frame[k]), str)

=============================================================================
